---- MODULE Spec2Model ----
(***************************************************************************)
(* Deals Finder API (back.py): the in-memory cache, the JSON-file store,   *)
(* the two simulated scrapers, the aggregator, and the search / refresh /  *)
(* list-listings handlers, as a state machine.                             *)
(*                                                                         *)
(* Text is a sequence of one-character strings, so that lower(), title(),  *)
(* substring tests and the cache key's composition are computed.  Time is  *)
(* counted in minutes.  The products file is a sequence of JSON tokens.    *)
(***************************************************************************)
EXTENDS Integers, Sequences, FiniteSets, TLC

(***************************************************************************)
(* Bounds of the model.                                                    *)
(***************************************************************************)
\* requests (search, refresh) accepted in one behaviour
MaxReqs == 2
\* iterations of a scraper's generation loop (the code passes 25)
FetchLimit == 2

(***************************************************************************)
(* Text.                                                                   *)
(***************************************************************************)
None == <<"\\None">>

LowerLetters == <<"a","b","c","d","e","f","g","h","i","j","k","l","m",
                  "n","o","p","q","r","s","t","u","v","w","x","y","z","é">>
UpperLetters == <<"A","B","C","D","E","F","G","H","I","J","K","L","M",
                  "N","O","P","Q","R","S","T","U","V","W","X","Y","Z","É">>

IsLower(c) == \E i \in DOMAIN LowerLetters : LowerLetters[i] = c
IsUpper(c) == \E i \in DOMAIN UpperLetters : UpperLetters[i] = c
IsCased(c) == IsLower(c) \/ IsUpper(c)

LowerChar(c) ==
    IF IsUpper(c)
    THEN LowerLetters[CHOOSE i \in DOMAIN UpperLetters : UpperLetters[i] = c]
    ELSE c

UpperChar(c) ==
    IF IsLower(c)
    THEN UpperLetters[CHOOSE i \in DOMAIN LowerLetters : LowerLetters[i] = c]
    ELSE c

\* str.lower()
Lower(s) == [i \in 1..Len(s) |-> LowerChar(s[i])]

\* str.title(): a cased character is upper-cased when it follows an uncased
\* one (or starts the text) and lower-cased otherwise
Title(s) ==
    [i \in 1..Len(s) |->
        IF i = 1 \/ ~IsCased(s[i - 1]) THEN UpperChar(s[i]) ELSE LowerChar(s[i])]

\* `sub in s`
Contains(s, sub) ==
    \E i \in 0..(Len(s) - Len(sub)) : SubSeq(s, i + 1, i + Len(sub)) = sub

\* Python truthiness of an Optional[str]
Truthy(s) == s # None /\ s # <<>>

\* str(x) inside an f-string: None prints as "None"
Str(s) == IF s = None THEN <<"N","o","n","e">> ELSE s

Paris == <<"P","a","r","i","s">>
Lyon == <<"L","y","o","n">>
All == <<"a","l","l">>
Leboncoin == <<"l","e","b","o","n","c","o","i","n">>
Vinted == <<"v","i","n","t","e","d">>

(***************************************************************************)
(* Arithmetic.                                                             *)
(***************************************************************************)
Min(a, b) == IF a < b THEN a ELSE b
Max(a, b) == IF a > b THEN a ELSE b

\* round(num / den) for num >= 0, den > 0: Python rounds halves to even
RoundDiv(num, den) ==
    LET q == num \div den
        r == num % den
    IN  IF 2 * r < den THEN q
        ELSE IF 2 * r > den THEN q + 1
        ELSE IF q % 2 = 0 THEN q ELSE q + 1

\* a variant of SliceTo that skips the first element, s[1:n+1], against
\* which C7 is tested
SliceAfterFirst(s, n) == SubSeq(s, 2, Min(Len(s), n + 1))

\* s[:n], n possibly negative
SliceTo(s, n) ==
    IF n >= 0 THEN SubSeq(s, 1, Min(n, Len(s)))
    ELSE SubSeq(s, 1, Max(Len(s) + n, 0))

(***************************************************************************)
(* The scrapers (simulated in the code by random generation).  A draw is   *)
(* what one loop iteration takes from `random`: price_ratio, in            *)
(* thousandths, and the location chosen.                                   *)
(***************************************************************************)
\* product_templates of scrape_leboncoin, in dict order
LeboncoinTemplates ==
    << [key |-> <<"i","p","h","o","n","e">>, avgPrice |-> 850,
        category |-> <<"T","é","l","é","p","h","o","n","i","e">>],
       [key |-> <<"m","a","c","b","o","o","k">>, avgPrice |-> 1600,
        category |-> <<"I","n","f","o","r","m","a","t","i","q","u","e">>],
       [key |-> <<"p","s","5">>, avgPrice |-> 450,
        category |-> <<"J","e","u","x"," ","v","i","d","é","o">>],
       [key |-> <<"j","o","r","d","a","n">>, avgPrice |-> 150,
        category |-> <<"C","h","a","u","s","s","u","r","e","s">>],
       [key |-> <<"c","a","n","a","p","é">>, avgPrice |-> 700,
        category |-> <<"M","o","b","i","l","i","e","r">>] >>

LeboncoinDefault ==
    [key |-> <<>>, avgPrice |-> 500, category |-> <<"D","i","v","e","r","s">>]

\* product_templates of scrape_vinted, in dict order
VintedTemplates ==
    << [key |-> <<"n","i","k","e">>, avgPrice |-> 120,
        category |-> <<"C","h","a","u","s","s","u","r","e","s">>],
       [key |-> <<"z","a","r","a">>, avgPrice |-> 80,
        category |-> <<"V","ê","t","e","m","e","n","t","s">>],
       [key |-> <<"s","a","c">>, avgPrice |-> 200,
        category |-> <<"M","o","d","e">>],
       [key |-> <<"p","u","l","l">>, avgPrice |-> 60,
        category |-> <<"V","ê","t","e","m","e","n","t","s">>] >>

VintedDefault ==
    [key |-> <<>>, avgPrice |-> 100, category |-> <<"M","o","d","e">>]

\* the first template whose key occurs in query.lower(), else the default
FindTemplate(templates, default, query) ==
    LET hits == {i \in DOMAIN templates : Contains(Lower(query), templates[i].key)}
    IN  IF hits = {} THEN default
        ELSE templates[CHOOSE i \in hits : \A j \in hits : i <= j]

\* discount = round(((avgPrice - price) / avgPrice) * 100)
Discount(avgPrice, price) == RoundDiv((avgPrice - price) * 100, avgPrice)

\* a variant of GenerateFrom without the floor, against which C16 is tested
RECURSIVE GenerateAll(_, _, _, _, _, _)
GenerateAll(i, max_results, draws, template, platform, title) ==
    IF i > max_results THEN <<>>
    ELSE LET price == RoundDiv(template.avgPrice * draws[i].ratio, 1000)
         IN  << [title |-> title,
                 platform |-> platform,
                 priceAverage |-> template.avgPrice,
                 priceSale |-> price,
                 discount |-> Discount(template.avgPrice, price),
                 location |-> draws[i].location,
                 category |-> template.category] >>
             \o GenerateAll(i + 1, max_results, draws, template, platform, title)

\* the generation loop shared by both scrapers: iteration i takes draws[i],
\* and a listing whose discount is below the floor is skipped
RECURSIVE GenerateFrom(_, _, _, _, _, _)
GenerateFrom(i, max_results, draws, template, platform, title) ==
    IF i > max_results THEN <<>>
    ELSE LET price == RoundDiv(template.avgPrice * draws[i].ratio, 1000)
             discount == Discount(template.avgPrice, price)
             rest == GenerateFrom(i + 1, max_results, draws, template, platform, title)
         IN  IF discount < 40 THEN rest
             ELSE << [title |-> title,
                      platform |-> platform,
                      priceAverage |-> template.avgPrice,
                      priceSale |-> price,
                      discount |-> discount,
                      location |-> draws[i].location,
                      category |-> template.category] >> \o rest

ExcellentEtat == <<" ","-"," ","E","x","c","e","l","l","e","n","t"," ","é","t","a","t">>
TresBonEtat == <<" ","-"," ","T","r","è","s"," ","b","o","n"," ","é","t","a","t">>

scrape_leboncoin(query, max_results, draws) ==
    GenerateFrom(1, max_results, draws,
                 FindTemplate(LeboncoinTemplates, LeboncoinDefault, query),
                 Leboncoin, Title(query) \o ExcellentEtat)

scrape_vinted(query, max_results, draws) ==
    GenerateFrom(1, max_results, draws,
                 FindTemplate(VintedTemplates, VintedDefault, query),
                 Vinted, Title(query) \o TresBonEtat)

(***************************************************************************)
(* The aggregator.                                                         *)
(***************************************************************************)
WithId(p, n) ==
    [id |-> n, title |-> p.title, platform |-> p.platform,
     priceAverage |-> p.priceAverage, priceSale |-> p.priceSale,
     discount |-> p.discount, location |-> p.location, category |-> p.category]

\* the two loops over results: ids 1..N over the concatenation
RECURSIVE NumberFrom(_, _)
NumberFrom(s, n) ==
    IF s = <<>> THEN <<>> ELSE <<WithId(Head(s), n)>> \o NumberFrom(Tail(s), n + 1)

\* a variant of InsertByDiscount that puts x before its equals: an unstable
\* sort, against which C6 is tested
RECURSIVE InsertBeforeEquals(_, _)
InsertBeforeEquals(sorted, x) ==
    IF sorted = <<>> THEN <<x>>
    ELSE IF Head(sorted).discount > x.discount
         THEN <<Head(sorted)>> \o InsertBeforeEquals(Tail(sorted), x)
         ELSE <<x>> \o sorted

\* x goes after every element whose discount is >= its own: a stable
\* insertion, as list.sort(key=discount, reverse=True) keeps equal keys in
\* their original order
RECURSIVE InsertByDiscount(_, _)
InsertByDiscount(sorted, x) ==
    IF sorted = <<>> THEN <<x>>
    ELSE IF Head(sorted).discount >= x.discount
         THEN <<Head(sorted)>> \o InsertByDiscount(Tail(sorted), x)
         ELSE <<x>> \o sorted

RECURSIVE SortByDiscountDesc(_)
SortByDiscountDesc(s) ==
    IF s = <<>> THEN <<>>
    ELSE InsertByDiscount(SortByDiscountDesc(SubSeq(s, 1, Len(s) - 1)), s[Len(s)])

\* a variant of Tasks that invokes both fetchers whatever the filter,
\* against which C13 is tested
TasksAll(platform) == <<Leboncoin, Vinted>>

\* the fetchers invoked for a platform filter, in invocation order
Tasks(platform) ==
    (IF platform = None \/ platform = All \/ platform = Leboncoin
        THEN <<Leboncoin>> ELSE <<>>)
    \o (IF platform = None \/ platform = All \/ platform = Vinted
        THEN <<Vinted>> ELSE <<>>)

\* asyncio.gather: each invoked fetcher's result, in invocation order
Gather(query, platform, rnd) ==
    [i \in 1..Len(Tasks(platform)) |->
        IF Tasks(platform)[i] = Leboncoin
        THEN scrape_leboncoin(query, FetchLimit, rnd.leboncoin)
        ELSE scrape_vinted(query, FetchLimit, rnd.vinted)]

RECURSIVE Concat(_)
Concat(results) ==
    IF results = <<>> THEN <<>> ELSE Head(results) \o Concat(Tail(results))

scrape_all_platforms(query, platform, rnd) ==
    SortByDiscountDesc(NumberFrom(Concat(Gather(query, platform, rnd)), 1))

(***************************************************************************)
(* The cache key.  md5 is taken to be injective on the composed texts of   *)
(* the model: the digest is the composed text under a tag.                 *)
(***************************************************************************)
Md5Hex(text) == <<"md5:">> \o text

get_cache_key(query, location, platform) ==
    Md5Hex(query \o <<"_">> \o Str(location) \o <<"_">> \o Str(platform))

(***************************************************************************)
(* The filter passes of get_products and search_products.                  *)
(***************************************************************************)
ByQuery(products, query) ==
    SelectSeq(products, LAMBDA p : Contains(Lower(p.title), Lower(query)))

ByLocation(products, location) ==
    SelectSeq(products, LAMBDA p : p.location = location)

ByCategory(products, category) ==
    SelectSeq(products, LAMBDA p : p.category = category)

ByPlatform(products, platform) ==
    SelectSeq(products, LAMBDA p : p.platform = platform)

ByDiscount(products, min_discount) ==
    SelectSeq(products, LAMBDA p : p.discount >= min_discount)

\* lines 319-324 of search_products
SearchFilter(products, req) ==
    LET located == IF Truthy(req.location) /\ req.location # All
                   THEN ByLocation(products, req.location) ELSE products
    IN  SliceTo(ByDiscount(located, req.min_discount), req.max_results)

\* lines 266-283 of get_products
ListFilter(products, c) ==
    LET f1 == IF Truthy(c.query) THEN ByQuery(products, c.query) ELSE products
        f2 == IF Truthy(c.location) /\ c.location # All
              THEN ByLocation(f1, c.location) ELSE f1
        f3 == IF Truthy(c.category) /\ c.category # All
              THEN ByCategory(f2, c.category) ELSE f2
        f4 == IF Truthy(c.platform) /\ c.platform # All
              THEN ByPlatform(f3, c.platform) ELSE f3
        f5 == IF c.min_discount # 0 THEN ByDiscount(f4, c.min_discount) ELSE f4
    IN  SliceTo(f5, c.max_results)

\* a variant of ValidQueryParams that lets every value through, against
\* which C8 is tested
AnyQueryParams(c) == TRUE

\* Query(40, ge=0, le=100) and Query(50, ge=1, le=200)
ValidQueryParams(c) ==
    /\ c.min_discount >= 0 /\ c.min_discount <= 100
    /\ c.max_results >= 1 /\ c.max_results <= 200

(***************************************************************************)
(* The products file, as JSON tokens.                                      *)
(***************************************************************************)
NoProduct ==
    [id |-> 0, title |-> <<>>, platform |-> <<>>, priceAverage |-> 0,
     priceSale |-> 0, discount |-> 0, location |-> <<>>, category |-> <<>>]

BeginArray == [tok |-> "[", product |-> NoProduct]
EndArray == [tok |-> "]", product |-> NoProduct]
Item(p) == [tok |-> "{}", product |-> p]

\* json.dump(products, f)
JsonDump(products) ==
    <<BeginArray>> \o [i \in 1..Len(products) |-> Item(products[i])] \o <<EndArray>>

\* whether json.load accepts the text: one array of objects and nothing else
JsonValid(text) ==
    /\ Len(text) >= 2
    /\ text[1] = BeginArray
    /\ text[Len(text)] = EndArray
    /\ \A i \in 2..(Len(text) - 1) : text[i].tok = "{}"

JsonLoad(text) == [i \in 1..(Len(text) - 2) |-> text[i + 1].product]

\* a write of `text` at offset 0 of a file holding `old`
WriteAt0(old, text) == text \o SubSeq(old, Len(text) + 1, Len(old))

(***************************************************************************)
(* State.                                                                  *)
(***************************************************************************)
VARIABLES
    now,         \* the latest reading of datetime.now(), in minutes
    cache,       \* the cache dict: key -> [data, time]
    fileExists,  \* PRODUCTS_FILE.exists()
    file,        \* the content of PRODUCTS_FILE
    tasks,       \* request handlers suspended in an await: id -> frame
    savers,      \* save_products calls scheduled or running: id -> frame
    nreq,        \* search and refresh requests accepted so far
    resp,        \* the latest search or refresh response
    reply,       \* the response of a read-only endpoint called in the latest step
    lastSaved,   \* the list of the save_products call that returned last
    preRefresh   \* entries a refresh found cached for its query and platform,
                 \* not stored again since

vars == <<now, cache, fileExists, file, tasks, savers, nreq, resp, reply,
          lastSaved, preRefresh>>

CACHE_DURATION == 30

\* minutes that may elapse between two arrivals: none, just under
\* CACHE_DURATION, CACHE_DURATION
Delays == {0, CACHE_DURATION - 1, CACHE_DURATION}

\* the behaviours span CACHE_DURATION minutes from the first request
Horizon == CACHE_DURATION

MayElapse(dt) ==
    /\ dt \in Delays
    /\ now + dt <= Horizon
    /\ nreq = 0 => dt = 0

(***************************************************************************)
(* Inputs.                                                                 *)
(***************************************************************************)
Ps5 == <<"p","s","5">>

\* price_ratio in thousandths; leboncoin draws a deal in [300, 600], vinted
\* in [250, 550], both a non-deal in [750, 950]
Draw(ratio, location) == [ratio |-> ratio, location |-> location]

\* the outcomes of `random` the model explores, by seed: what iteration i
\* of each scraper's loop draws
Seeds == {1, 2}

Rand(seed) ==
    CASE seed = 1 ->
           [leboncoin |-> [i \in 1..FetchLimit |->
                              IF i % 2 = 1 THEN Draw(600, Paris) ELSE Draw(400, Lyon)],
            vinted    |-> [i \in 1..FetchLimit |->
                              IF i % 2 = 1 THEN Draw(400, Paris) ELSE Draw(800, Lyon)]]
      [] OTHER ->
           [leboncoin |-> [i \in 1..FetchLimit |-> Draw(800, Lyon)],
            vinted    |-> [i \in 1..FetchLimit |->
                              IF i % 2 = 1 THEN Draw(550, Lyon) ELSE Draw(400, Paris)]]

SearchRequest(query, location, platform, min_discount, max_results) ==
    [query |-> query, location |-> location, platform |-> platform,
     min_discount |-> min_discount, max_results |-> max_results]

\* the search bodies the clients send
SearchBodies ==
    { SearchRequest(Ps5, None, None, 40, 50),
      SearchRequest(Ps5, None, None, 60, 1),
      SearchRequest(Ps5, Paris, None, 40, 50) }

\* a body whose location is the text "None", which str() also prints for an
\* absent location
AliasBodies ==
    { SearchRequest(Ps5, <<"N","o","n","e">>, None, 40, 50) }

\* bodies with min_discount or max_results outside the ranges that
\* get_products declares: SearchRequest declares the two fields as plain int
WideBodies ==
    { SearchRequest(Ps5, None, None, 40, -1),
      SearchRequest(Ps5, None, None, 101, 50) }

\* the query string of GET /api/products
ListParams(query, location, category, platform, min_discount, max_results) ==
    [query |-> query, location |-> location, category |-> category,
     platform |-> platform, min_discount |-> min_discount,
     max_results |-> max_results]

Excellent == <<"e","x","c","e","l","l","e","n","t">>
Mode == <<"M","o","d","e">>

\* the query strings the clients send: each criterion absent or present,
\* the two numbers inside, on and outside the declared ranges
ListQueries ==
    { ListParams(q, l, c, p, d, m) :
        q \in {None, Excellent},
        l \in {None, Paris},
        c \in {All, Mode},
        p \in {None, Vinted},
        d \in {-1, 0, 60, 101},
        m \in {0, 1, 50, 201} }

\* refresh's parameters; background_tasks is FALSE when the function is
\* called with background_tasks=None
RefreshParams ==
    [query : {Ps5}, platform : {None}, background_tasks : BOOLEAN]

\* the platform filters the clients send: absent, 'all', the two platform
\* names, a name in another case, a name of no fetcher
PlatformFilters ==
    {None, All, Leboncoin, Vinted, <<"V","i","n","t","e","d">>,
     <<"e","b","a","y">>}

\* asyncio.gather on the inputs above, tabulated
Gathered ==
    [query \in {Ps5}, platform \in PlatformFilters, seed \in Seeds |->
        Gather(query, platform, Rand(seed))]

\* scrape_all_platforms on the inputs above, tabulated
Scraped ==
    [query \in {Ps5}, platform \in PlatformFilters, seed \in Seeds |->
        scrape_all_platforms(query, platform, Rand(seed))]

(***************************************************************************)
(* Helpers of the handlers.                                                *)
(***************************************************************************)
NoResp ==
    [id |-> 0, op |-> "none", req |-> <<>>, cached |-> FALSE, products |-> <<>>,
     count |-> 0, hadEntry |-> FALSE, seed |-> 0]
NoReply == [endpoint |-> "none", status |-> 0, params |-> <<>>, body |-> <<>>]

\* a synchronous save_products call is running on the event loop
LoopBusy == \E id \in DOMAIN savers : savers[id].sync

\* a variant of Fresh that still accepts an entry aged exactly
\* CACHE_DURATION, against which C3 is tested
FreshInclusive(entry, t) == t - entry.time <= CACHE_DURATION

\* line 303, at clock reading t
Fresh(entry, t) == t - entry.time < CACHE_DURATION

\* lines 301-303: the entry is present and younger than CACHE_DURATION
CacheHit(key, t) == key \in DOMAIN cache /\ Fresh(cache[key], t)

\* a variant of CachePut that stores nothing, against which C2 is tested
CachePutNothing(key, products, t) == cache

\* a variant of CachePut that also evicts the entries that have expired,
\* against which C15 is tested
CachePutEvicting(key, products, t) ==
    [k \in {k \in DOMAIN cache : Fresh(cache[k], t)} \cup {key} |->
        IF k = key THEN [data |-> products, time |-> t] ELSE cache[k]]

\* cache[key] = (products, datetime.now()), at clock reading t
CachePut(key, products, t) ==
    [k \in DOMAIN cache \cup {key} |->
        IF k = key THEN [data |-> products, time |-> t] ELSE cache[k]]

\* a variant of CacheInvalidate that clears the whole cache, against which
\* C18 is tested
CacheClear(key) == [k \in {} |-> cache[k]]

\* if cache_key in cache: del cache[cache_key]
CacheInvalidate(key) == [k \in DOMAIN cache \ {key} |-> cache[k]]

\* background_tasks.add_task(save_products, products), or the direct call
SaveTask(products, sync) ==
    [products |-> products, pc |-> "pending", sync |-> sync]

Put(f, id, frame) == [k \in DOMAIN f \cup {id} |-> IF k = id THEN frame ELSE f[k]]
Drop(f, id) == [k \in DOMAIN f \ {id} |-> f[k]]

\* the keys of the search bodies that carry a refresh's query and platform
KeysFor(query, platform) ==
    {get_cache_key(b.query, b.location, b.platform) :
        b \in {b \in SearchBodies : b.query = query /\ b.platform = platform}}

(***************************************************************************)
(* Initial state: an empty cache, no products file, nothing under way.     *)
(***************************************************************************)
Init ==
    /\ now = 0
    /\ cache = <<>>
    /\ fileExists = FALSE
    /\ file = <<>>
    /\ tasks = <<>>
    /\ savers = <<>>
    /\ nreq = 0
    /\ resp = NoResp
    /\ reply = NoReply
    /\ lastSaved = <<>>
    /\ preRefresh = {}

(***************************************************************************)
(* POST /api/search.                                                       *)
(***************************************************************************)
\* a variant of SearchHit that schedules a save of the cached listings, as
\* the miss path does, against which C17 is tested
SearchHitSaving(req, dt) ==
    LET key == get_cache_key(req.query, req.location, req.platform)
        id == nreq + 1
    IN  /\ ~LoopBusy
        /\ MayElapse(dt)
        /\ now' = now + dt
        /\ CacheHit(key, now')
        /\ nreq' = id
        /\ resp' = [id |-> id, op |-> "search", req |-> req, cached |-> TRUE,
                    products |-> cache[key].data, count |-> Len(cache[key].data),
                    hadEntry |-> TRUE, seed |-> 0]
        /\ savers' = Put(savers, id, SaveTask(cache[key].data, FALSE))
        /\ reply' = NoReply
        /\ UNCHANGED <<cache, fileExists, file, tasks, lastSaved, preRefresh>>

\* lines 294-310: the key is in the cache and fresh; the handler returns
SearchHit(req, dt) ==
    LET key == get_cache_key(req.query, req.location, req.platform)
        id == nreq + 1
    IN  /\ ~LoopBusy
        /\ MayElapse(dt)
        /\ now' = now + dt
        /\ CacheHit(key, now')
        /\ nreq' = id
        /\ resp' = [id |-> id, op |-> "search", req |-> req, cached |-> TRUE,
                    products |-> cache[key].data, count |-> Len(cache[key].data),
                    hadEntry |-> TRUE, seed |-> 0]
        /\ reply' = NoReply
        /\ UNCHANGED <<cache, fileExists, file, tasks, savers, lastSaved, preRefresh>>

\* lines 294-314: a miss; the handler awaits scrape_all_platforms
SearchMiss(req, dt) ==
    LET key == get_cache_key(req.query, req.location, req.platform)
        id == nreq + 1
    IN  /\ ~LoopBusy
        /\ MayElapse(dt)
        /\ now' = now + dt
        /\ ~CacheHit(key, now')
        /\ nreq' = id
        /\ tasks' = Put(tasks, id,
                        [op |-> "search", pc |-> "scrape", req |-> req, key |-> key,
                         hadEntry |-> key \in DOMAIN cache,
                         products |-> <<>>, seed |-> 0])
        /\ reply' = NoReply
        /\ UNCHANGED <<cache, fileExists, file, savers, resp, lastSaved, preRefresh>>

\* lines 314-338: the scrape returns; filter, cache put, add_task, response
SearchFinish(id, seed) ==
    /\ ~LoopBusy
    /\ id \in DOMAIN tasks
    /\ tasks[id].op = "search"
    /\ tasks[id].pc = "scrape"
    /\ LET t == tasks[id]
           products == SearchFilter(Scraped[t.req.query, t.req.platform, seed], t.req)
       IN  /\ cache' = CachePut(t.key, products, now)
           /\ savers' = Put(savers, id, SaveTask(products, FALSE))
           /\ resp' = [id |-> id, op |-> "search", req |-> t.req, cached |-> FALSE,
                       products |-> products, count |-> Len(products),
                       hadEntry |-> t.hadEntry, seed |-> seed]
    /\ tasks' = Drop(tasks, id)
    /\ preRefresh' = {e \in preRefresh : e.key # tasks[id].key}
    /\ reply' = NoReply
    /\ UNCHANGED <<now, fileExists, file, nreq, lastSaved>>

(***************************************************************************)
(* GET /api/refresh.                                                       *)
(***************************************************************************)
\* lines 351-357: invalidate the key, then await scrape_all_platforms
RefreshStart(req) ==
    LET key == get_cache_key(req.query, None, req.platform)
        id == nreq + 1
    IN  /\ ~LoopBusy
        /\ nreq' = id
        /\ cache' = CacheInvalidate(key)
        /\ tasks' = Put(tasks, id,
                        [op |-> "refresh", pc |-> "scrape", req |-> req, key |-> key,
                         hadEntry |-> key \in DOMAIN cache,
                         products |-> <<>>, seed |-> 0])
        /\ preRefresh' = preRefresh \cup
               {[key |-> k, entry |-> cache[k]] :
                    k \in KeysFor(req.query, req.platform) \cap DOMAIN cache}
        /\ reply' = NoReply
        /\ UNCHANGED <<now, fileExists, file, savers, resp, lastSaved>>

RefreshResponse(id, t, products, seed) ==
    [id |-> id, op |-> "refresh", req |-> t.req, cached |-> FALSE,
     products |-> products, count |-> Len(products),
     hadEntry |-> t.hadEntry, seed |-> seed]

\* a variant of SaveInBackground that always calls save_products directly,
\* against which C10 is tested
NeverInBackground(req) == FALSE

\* line 360: whether the save is handed to background_tasks
SaveInBackground(req) == req.background_tasks

\* lines 357-370: the scrape returns; with a BackgroundTasks object the save
\* is added to it and the response returned, without one save_products is
\* called before the return
RefreshFinish(id, seed) ==
    /\ ~LoopBusy
    /\ id \in DOMAIN tasks
    /\ tasks[id].op = "refresh"
    /\ tasks[id].pc = "scrape"
    /\ LET t == tasks[id]
           products == Scraped[t.req.query, t.req.platform, seed]
       IN  IF SaveInBackground(t.req)
           THEN /\ savers' = Put(savers, id, SaveTask(products, FALSE))
                /\ resp' = RefreshResponse(id, t, products, seed)
                /\ tasks' = Drop(tasks, id)
           ELSE /\ savers' = Put(savers, id, SaveTask(products, TRUE))
                /\ tasks' = Put(tasks, id,
                                [t EXCEPT !.pc = "save", !.products = products,
                                          !.seed = seed])
                /\ resp' = resp
    /\ reply' = NoReply
    /\ UNCHANGED <<now, cache, fileExists, file, nreq, lastSaved, preRefresh>>

\* lines 363-370: the direct save_products call has returned; the response
RefreshReturn(id) ==
    /\ id \in DOMAIN tasks
    /\ tasks[id].pc = "save"
    /\ id \notin DOMAIN savers
    /\ resp' = RefreshResponse(id, tasks[id], tasks[id].products, tasks[id].seed)
    /\ tasks' = Drop(tasks, id)
    /\ reply' = NoReply
    /\ UNCHANGED <<now, cache, fileExists, file, savers, nreq, lastSaved, preRefresh>>

(***************************************************************************)
(* save_products: a background task runs in a worker thread, the direct    *)
(* call on the event loop; either way the file is truncated when opened    *)
(* and receives the text when the buffered writer is flushed at close (a   *)
(* text longer than the buffer would reach the file in several pieces).    *)
(***************************************************************************)
\* line 78: open(PRODUCTS_FILE, 'w')
SaveOpen(id) ==
    /\ id \in DOMAIN savers
    /\ savers[id].pc = "pending"
    /\ fileExists' = TRUE
    /\ file' = <<>>
    /\ savers' = [savers EXCEPT ![id].pc = "open"]
    /\ reply' = NoReply
    /\ UNCHANGED <<now, cache, tasks, nreq, resp, lastSaved, preRefresh>>

\* line 79 and the end of the with block: json.dump, flush, close
SaveWrite(id) ==
    /\ id \in DOMAIN savers
    /\ savers[id].pc = "open"
    /\ file' = WriteAt0(file, JsonDump(savers[id].products))
    /\ savers' = Drop(savers, id)
    /\ lastSaved' = savers[id].products
    /\ reply' = NoReply
    /\ UNCHANGED <<now, cache, fileExists, tasks, nreq, resp, preRefresh>>

(***************************************************************************)
(* GET /api/products.                                                      *)
(***************************************************************************)
\* load_products, lines 69-74
load_products ==
    IF fileExists
    THEN IF JsonValid(file) THEN [ok |-> TRUE, products |-> JsonLoad(file)]
         ELSE [ok |-> FALSE, products |-> <<>>]
    ELSE [ok |-> TRUE, products |-> <<>>]

\* lines 250-283: 422 on a parameter out of range, 500 when json.load raises
get_products(params) ==
    IF ~ValidQueryParams(params)
    THEN [endpoint |-> "products", status |-> 422, params |-> params, body |-> <<>>]
    ELSE IF ~load_products.ok
    THEN [endpoint |-> "products", status |-> 500, params |-> params, body |-> <<>>]
    ELSE [endpoint |-> "products", status |-> 200, params |-> params,
          body |-> ListFilter(load_products.products, params)]

ListListings(params) ==
    /\ ~LoopBusy
    /\ reply' = get_products(params)
    /\ UNCHANGED <<now, cache, fileExists, file, tasks, savers, nreq, resp,
                   lastSaved, preRefresh>>

(***************************************************************************)
(* GET /api/stats.                                                         *)
(***************************************************************************)
RECURSIVE SumSeq(_)
SumSeq(s) == IF s = <<>> THEN 0 ELSE Head(s) + SumSeq(Tail(s))

\* a variant of GoodDeals that counts from the floor of 40, against which
\* C11 is tested
DealsFromFloor(products) == SelectSeq(products, LAMBDA p : p.discount >= 40)

\* line 405: [p for p in products if p['discount'] >= 50]
GoodDeals(products) == SelectSeq(products, LAMBDA p : p.discount >= 50)

\* lines 394-401: the dict that counts the listings by platform or category
CountBy(products, field) ==
    LET values == {products[i][field] : i \in 1..Len(products)}
    IN  [v \in values |->
            Cardinality({i \in 1..Len(products) : products[i][field] = v})]

\* lines 379-410; average_discount is in tenths, round(x, 1)
StatsResponse(products) ==
    IF products = <<>>
    THEN [total_products |-> 0, good_deals_count |-> 0, average_discount |-> 0,
          total_savings |-> 0, platforms |-> <<>>, categories |-> <<>>]
    ELSE [total_products |-> Len(products),
          good_deals_count |-> Len(GoodDeals(products)),
          average_discount |->
              RoundDiv(10 * SumSeq([i \in 1..Len(products) |-> products[i].discount]),
                       Len(products)),
          total_savings |->
              SumSeq([i \in 1..Len(products) |->
                         products[i].priceAverage - products[i].priceSale]),
          platforms |-> CountBy(products, "platform"),
          categories |-> CountBy(products, "category")]

\* lines 372-410: 500 when json.load raises
get_stats ==
    IF ~load_products.ok
    THEN [endpoint |-> "stats", status |-> 500, params |-> <<>>, body |-> <<>>]
    ELSE [endpoint |-> "stats", status |-> 200, params |-> <<>>,
          body |-> StatsResponse(load_products.products)]

Stats ==
    /\ ~LoopBusy
    /\ reply' = get_stats
    /\ UNCHANGED <<now, cache, fileExists, file, tasks, savers, nreq, resp,
                   lastSaved, preRefresh>>

(***************************************************************************)
(* GET /api/health.                                                        *)
(***************************************************************************)
\* lines 430-439
health_check ==
    [endpoint |-> "health", status |-> 200, params |-> <<>>,
     body |-> [status |-> "healthy", timestamp |-> now,
               cache_size |-> Cardinality(DOMAIN cache)]]

Health ==
    /\ ~LoopBusy
    /\ reply' = health_check
    /\ UNCHANGED <<now, cache, fileExists, file, tasks, savers, nreq, resp,
                   lastSaved, preRefresh>>

(***************************************************************************)
(* The system: up to MaxReqs requests, handlers and saves interleaved.      *)
(***************************************************************************)
Admit == nreq < MaxReqs

Next ==
    \/ Admit /\ \E req \in SearchBodies, dt \in Delays : SearchHit(req, dt)
    \/ Admit /\ \E req \in SearchBodies, dt \in Delays : SearchMiss(req, dt)
    \/ Admit /\ \E req \in RefreshParams : RefreshStart(req)
    \/ \E id \in 1..MaxReqs, seed \in Seeds : SearchFinish(id, seed)
    \/ \E id \in 1..MaxReqs, seed \in Seeds : RefreshFinish(id, seed)
    \/ \E id \in 1..MaxReqs : RefreshReturn(id)
    \/ \E id \in 1..MaxReqs : SaveOpen(id)
    \/ \E id \in 1..MaxReqs : SaveWrite(id)

Spec == Init /\ [][Next]_vars

\* the worker threads and the event loop get to run: a save that is
\* scheduled is eventually opened, and one that is open eventually written
FairSpec ==
    /\ Spec
    /\ \A id \in 1..MaxReqs : WF_vars(SaveOpen(id)) /\ WF_vars(SaveWrite(id))

(***************************************************************************)
(* The same handlers under a sequential client: a request is sent when the *)
(* previous one and its save are over; one request more than in Spec, and  *)
(* one more search body.                                                   *)
(***************************************************************************)
SeqReqs == MaxReqs + 1

AdmitSeq == nreq < SeqReqs /\ tasks = <<>> /\ savers = <<>>

SeqNext ==
    \/ AdmitSeq /\ \E req \in SearchBodies \cup AliasBodies, dt \in Delays :
                       SearchHit(req, dt)
    \/ AdmitSeq /\ \E req \in SearchBodies \cup AliasBodies, dt \in Delays :
                       SearchMiss(req, dt)
    \/ AdmitSeq /\ \E req \in RefreshParams : RefreshStart(req)
    \/ \E id \in 1..SeqReqs, seed \in Seeds : SearchFinish(id, seed)
    \/ \E id \in 1..SeqReqs, seed \in Seeds : RefreshFinish(id, seed)
    \/ \E id \in 1..SeqReqs : RefreshReturn(id)
    \/ \E id \in 1..SeqReqs : SaveOpen(id)
    \/ \E id \in 1..SeqReqs : SaveWrite(id)

SeqSpec == Init /\ [][SeqNext]_vars

(***************************************************************************)
(* The read side: the server starts on a products file left by an earlier  *)
(* run, serves GET /api/products at any time and one search, whose body    *)
(* carries a number outside the ranges of get_products.                    *)
(***************************************************************************)
\* the lists an earlier run can have saved: what a refresh returned
SavedLists == {Scraped[Ps5, None, seed] : seed \in Seeds}

ApiInit ==
    /\ now = 0
    /\ cache = <<>>
    /\ \/ fileExists = FALSE /\ file = <<>> /\ lastSaved = <<>>
       \/ \E products \in SavedLists :
              /\ fileExists = TRUE
              /\ file = JsonDump(products)
              /\ lastSaved = products
    /\ tasks = <<>>
    /\ savers = <<>>
    /\ nreq = 0
    /\ resp = NoResp
    /\ reply = NoReply
    /\ preRefresh = {}

ApiNext ==
    \/ \E params \in ListQueries : ListListings(params)
    \/ Stats
    \/ nreq = 0 /\ \E req \in WideBodies : SearchMiss(req, 0)
    \/ \E seed \in Seeds : SearchFinish(1, seed)
    \/ SaveOpen(1)
    \/ SaveWrite(1)

ApiSpec == ApiInit /\ [][ApiNext]_vars

(***************************************************************************)
(* The system with a monitor that polls the health endpoint.               *)
(***************************************************************************)
MonitoredNext ==
    \/ Next
    \/ Health

MonitoredSpec == Init /\ [][MonitoredNext]_vars

(***************************************************************************)
(* The same handlers under a sequential client whose searches and          *)
(* refreshes carry a platform filter.                                      *)
(***************************************************************************)
PlatformBodies ==
    {SearchRequest(Ps5, None, platform, 40, 50) : platform \in PlatformFilters}
    \cup {SearchRequest(Ps5, Paris, None, 0, 50)}

PlatformRefreshes ==
    [query : {Ps5}, platform : PlatformFilters, background_tasks : {TRUE}]

AdmitOne == nreq < MaxReqs /\ tasks = <<>> /\ savers = <<>>

PlatformNext ==
    \/ AdmitOne /\ \E req \in PlatformBodies : SearchHit(req, 0)
    \/ AdmitOne /\ \E req \in PlatformBodies : SearchMiss(req, 0)
    \/ AdmitOne /\ \E req \in PlatformRefreshes : RefreshStart(req)
    \/ \E id \in 1..MaxReqs, seed \in Seeds : SearchFinish(id, seed)
    \/ \E id \in 1..MaxReqs, seed \in Seeds : RefreshFinish(id, seed)
    \/ \E id \in 1..MaxReqs : SaveOpen(id)
    \/ \E id \in 1..MaxReqs : SaveWrite(id)

PlatformSpec == Init /\ [][PlatformNext]_vars

(***************************************************************************)
(* Properties.                                                             *)
(***************************************************************************)
\* the step produces the response of a search
SearchResponds == resp'.id # resp.id /\ resp'.op = "search"

\* the key of the search that `r` answers
KeyOf(r) == get_cache_key(r.req.query, r.req.location, r.req.platform)

\* C1: after refresh(query, platform), no later search with that query and
\* platform, whatever its location, min_discount and max_results, is
\* answered with a cache value that was stored before the refresh.
C1_RefreshInvalidates ==
    [][(SearchResponds /\ resp'.cached) =>
          \A e \in preRefresh :
              ~(e.key = KeyOf(resp') /\ e.entry.data = resp'.products)]_vars

\* the step accepts a search with body `req`: it is answered at once, on a
\* hit, or suspended in its scrape
AcceptsSearch(req) ==
    /\ nreq' = nreq + 1
    /\ \/ resp'.id = nreq' /\ resp'.op = "search" /\ resp'.req = req
       \/ /\ nreq' \in DOMAIN tasks'
          /\ tasks'[nreq'].op = "search"
          /\ tasks'[nreq'].req = req

\* the step answers the search it accepts from the cache
AnswersFromCache == resp'.id = nreq' /\ resp'.cached

\* C2: two consecutive searches with an identical body, less than 30
\* minutes apart, nothing in between and no entry for the key before the
\* first: the first returns cached=false, the second cached=true with the
\* first's products and count, and count is the length of products.
C2_ConsecutiveSearches ==
    [][(/\ resp.op = "search"
        /\ resp.id = nreq
        /\ ~resp.hadEntry
        /\ tasks = <<>>
        /\ AcceptsSearch(resp.req)
        /\ now' - now < CACHE_DURATION)
       => (/\ ~resp.cached
           /\ AnswersFromCache
           /\ resp'.products = resp.products
           /\ resp'.count = resp.count
           /\ resp.count = Len(resp.products)
           /\ resp'.count = Len(resp'.products))]_vars

\* the second of two identical searches, 29 minutes after the first, was a
\* hit (only the body with location Paris composes this key)
C2_Witness ==
    /\ resp.op = "search"
    /\ resp.id = 2
    /\ resp.cached
    /\ resp.req.location = Paris
    /\ resp.products # <<>>
    /\ now = CACHE_DURATION - 1

\* C3: a search is served from the cache exactly when its key has an entry
\* younger than 30 minutes, and a hit returns the stored list; at 30 minutes
\* or more it is a miss, which re-aggregates and overwrites the entry with a
\* new timestamp.
C3_HitIffFresh ==
    [][/\ \A req \in SearchBodies :
            AcceptsSearch(req) =>
                LET key == get_cache_key(req.query, req.location, req.platform)
                IN  /\ AnswersFromCache <=>
                           (key \in DOMAIN cache
                               /\ now' - cache[key].time < CACHE_DURATION)
                    /\ AnswersFromCache =>
                           resp'.products = cache[key].data /\ cache' = cache
                    /\ ~AnswersFromCache =>
                           tasks'[nreq'].pc = "scrape" /\ resp' = resp
       /\ (SearchResponds /\ ~resp'.cached) =>
              /\ resp'.seed \in Seeds
              /\ resp'.products =
                     SearchFilter(Scraped[resp'.req.query, resp'.req.platform,
                                          resp'.seed],
                                  resp'.req)
              /\ cache'[KeyOf(resp')] = [data |-> resp'.products, time |-> now']]_vars

\* a search found its entry aged exactly CACHE_DURATION, missed and stored a
\* new entry
C3_Witness ==
    /\ resp.op = "search"
    /\ ~resp.cached
    /\ resp.hadEntry
    /\ now = CACHE_DURATION
    /\ KeyOf(resp) \in DOMAIN cache
    /\ cache[KeyOf(resp)].time = CACHE_DURATION

\* C4: every listing of a search response, hit or miss, has a discount at
\* least the min_discount of the request it answers.
C4_MinDiscountHonoured ==
    resp.op = "search" =>
        \A i \in 1..Len(resp.products) :
            resp.products[i].discount >= resp.req.min_discount

\* C5: every search response, hit or miss, holds at most the max_results
\* of the request it answers.
C5_MaxResultsHonoured ==
    resp.op = "search" => Len(resp.products) <= resp.req.max_results

\* what the fetchers returned to the aggregation behind the response `r`
FetchedFor(r) == Gathered[r.req.query, r.req.platform, r.seed]

RECURSIVE SumLen(_)
SumLen(results) ==
    IF results = <<>> THEN 0 ELSE Len(Head(results)) + SumLen(Tail(results))

\* s is in discount order, equal discounts in the order of their ids
DiscountOrdered(s) ==
    \A i, j \in 1..Len(s) :
        i < j => \/ s[i].discount > s[j].discount
                 \/ s[i].discount = s[j].discount /\ s[i].id < s[j].id

\* s is t with some elements left out, the others in t's order
RECURSIVE IsSubsequence(_, _)
IsSubsequence(s, t) ==
    IF s = <<>> THEN TRUE
    ELSE IF t = <<>> THEN FALSE
    ELSE IF Head(s) = Head(t) THEN IsSubsequence(Tail(s), Tail(t))
    ELSE IsSubsequence(s, Tail(t))

\* C6: the aggregator's output holds exactly the listings its fetchers
\* returned, as many as their results together, sorted by discount
\* non-increasing with equal discounts in concatenation order; search and
\* refresh responses preserve the order.
C6_AggregatorOrder ==
    /\ DiscountOrdered(resp.products)
    /\ resp.seed \in Seeds =>
          LET all == Concat(FetchedFor(resp))
              out == Scraped[resp.req.query, resp.req.platform, resp.seed]
          IN  /\ Len(out) = SumLen(FetchedFor(resp))
              /\ {out[i].id : i \in 1..Len(out)} = 1..Len(all)
              /\ \A i \in 1..Len(out) : out[i] = WithId(all[out[i].id], out[i].id)
              /\ DiscountOrdered(out)
              /\ resp.op = "refresh" => resp.products = out
              /\ resp.op = "search" => IsSubsequence(resp.products, out)

\* a refresh answered with three listings, two of them of equal discount
\* and coming from different fetchers
C6_Witness ==
    /\ resp.op = "refresh"
    /\ resp.seed \in Seeds
    /\ Len(resp.products) = 3
    /\ resp.products[1].discount = resp.products[2].discount
    /\ resp.products[1].platform # resp.products[2].platform

\* C7: the list-listings filter is idempotent: applied to its own output
\* with the same criteria it yields the identical sequence, for every stored
\* collection and every criteria set the endpoint runs it on.
C7_ListFilterIdempotent ==
    (reply.endpoint = "products" /\ reply.status = 200) =>
        ListFilter(reply.body, reply.params) = reply.body

\* a listing request with a location, a category, a platform, a
\* min_discount and a max_results kept one listing of the three stored
C7_Witness ==
    /\ reply.endpoint = "products"
    /\ reply.status = 200
    /\ reply.params.location = Paris
    /\ reply.params.category = Mode
    /\ reply.params.platform = Vinted
    /\ reply.params.min_discount = 60
    /\ reply.params.max_results = 1
    /\ Len(reply.body) = 1
    /\ Len(load_products.products) = 3

\* min_discount is outside 0..100 or max_results outside 1..200
OutOfRange(c) ==
    \/ c.min_discount < 0 \/ c.min_discount > 100
    \/ c.max_results < 1 \/ c.max_results > 200

\* the step is a GET /api/products call
ListsProducts == reply'.endpoint = "products"

\* the step rejects the request with a client error and changes nothing
RejectedWithoutEffect ==
    /\ reply'.status = 422
    /\ reply'.body = <<>>
    /\ UNCHANGED <<now, cache, fileExists, file, tasks, savers, nreq, resp,
                   lastSaved, preRefresh>>

\* C8 as stated: any request, a search included, whose min_discount is
\* outside 0..100 or whose max_results is outside 1..200 is rejected with a
\* client error and no side effect.
C8_AnyRequestRejected ==
    [][/\ (ListsProducts /\ OutOfRange(reply'.params)) => RejectedWithoutEffect
       /\ \A req \in WideBodies :
            OutOfRange(req) => ~AcceptsSearch(req)]_vars

\* C8, amended: a list-listings request whose min_discount is outside
\* 0..100 or whose max_results is outside 1..200 is rejected with a client
\* error and no side effect, and one inside both ranges is not rejected.
C8_ListingsRejected ==
    [][ListsProducts =>
           IF OutOfRange(reply'.params) THEN RejectedWithoutEffect
           ELSE reply'.status # 422]_vars

\* a listing request was rejected for its max_results alone while the store
\* holds listings
C8_Witness ==
    /\ reply.endpoint = "products"
    /\ reply.status = 422
    /\ reply.params.min_discount = 60
    /\ reply.params.max_results = 201
    /\ fileExists
    /\ Len(file) > 2

\* C9: whenever no save is under way, the store holds exactly the whole
\* list given to the save that completed most recently, or nothing if none
\* has: racing saves leave one of their lists in full.
C9_StoreHoldsLastSave ==
    savers = <<>> => load_products = [ok |-> TRUE, products |-> lastSaved]

\* the step produces the response of a search miss or of a refresh
Responds == resp'.id # resp.id /\ ~resp'.cached

\* the step schedules exactly one save, the save `id` of `products`, which
\* has not begun
SchedulesSave(id, products) ==
    /\ id \notin DOMAIN savers
    /\ DOMAIN savers' = DOMAIN savers \cup {id}
    /\ savers'[id].products = products
    /\ savers'[id].pc = "pending"

\* the step is the beginning of the save `id`
BeginsSave(id) ==
    /\ id \in DOMAIN savers /\ savers[id].pc = "pending"
    /\ id \in DOMAIN savers' /\ savers'[id].pc = "open"

\* the step is the end of the save `id`
EndsSave(id) ==
    /\ id \in DOMAIN savers /\ savers[id].pc = "open"
    /\ id \notin DOMAIN savers'

\* every save that is scheduled is eventually over
SavesComplete ==
    \A id \in 1..MaxReqs : (id \in DOMAIN savers) ~> (id \notin DOMAIN savers)

\* a save that writes into the file as an open left it leaves its list for
\* load
SaveLeavesItsList ==
    \A id \in 1..MaxReqs :
        (EndsSave(id) /\ file = <<>>) =>
            load_products' = [ok |-> TRUE, products |-> savers[id].products]

InBackground(r) == r.op = "search" \/ r.req.background_tasks

RECURSIVE SumCounts(_)
SumCounts(f) ==
    IF DOMAIN f = {} THEN 0
    ELSE LET k == CHOOSE k \in DOMAIN f : TRUE
         IN  f[k] + SumCounts([j \in DOMAIN f \ {k} |-> f[j]])

\* C11: stats reports total_products equal to the number of stored
\* listings, good_deals_count equal to the number of those with discount
\* >= 50, and platform and category counts that each sum to total_products;
\* on an empty store everything is 0 and both maps are empty.
C11_StatsCounts ==
    (reply.endpoint = "stats" /\ reply.status = 200) =>
        LET stored == load_products.products
            stats == reply.body
        IN  /\ stats.total_products = Len(stored)
            /\ stats.good_deals_count =
                   Cardinality({i \in 1..Len(stored) : stored[i].discount >= 50})
            /\ SumCounts(stats.platforms) = stats.total_products
            /\ SumCounts(stats.categories) = stats.total_products
            /\ \A v \in DOMAIN stats.platforms : stats.platforms[v] >= 1
            /\ \A v \in DOMAIN stats.categories : stats.categories[v] >= 1
            /\ stored = <<>> =>
                   /\ stats.total_products = 0
                   /\ stats.good_deals_count = 0
                   /\ stats.average_discount = 0
                   /\ stats.total_savings = 0
                   /\ DOMAIN stats.platforms = {}
                   /\ DOMAIN stats.categories = {}

\* stats on a store of three listings from two platforms, one of them
\* below 50
C11_Witness ==
    /\ reply.endpoint = "stats"
    /\ reply.status = 200
    /\ reply.body.total_products = 3
    /\ reply.body.good_deals_count = 2
    /\ Cardinality(DOMAIN reply.body.platforms) = 2

\* the (query, location, platform) triple of a search body
Triple(req) == <<req.query, req.location, req.platform>>

\* C12: a search hit returns only results stored by a search with the same
\* (query, location, platform) triple: distinct triples have distinct keys.
\* Stated for a hit on the entry that the latest response, a miss, stored.
C12_KeySeparatesTriples ==
    [][(/\ SearchResponds /\ resp'.cached
        /\ resp.op = "search" /\ ~resp.cached
        /\ KeyOf(resp') = KeyOf(resp))
       => Triple(resp'.req) = Triple(resp.req)]_vars

\* C13: the aggregator invokes every fetcher when the platform filter is
\* absent or 'all', only the fetcher of that name when the filter names
\* one, so that every listing returned has that platform, and no fetcher,
\* with an empty result, when the filter names no known platform.
C13_FetcherSelection ==
    resp.seed \in Seeds =>
        LET platform == resp.req.platform
            rnd == Rand(resp.seed)
            fromLeboncoin == scrape_leboncoin(resp.req.query, FetchLimit, rnd.leboncoin)
            fromVinted == scrape_vinted(resp.req.query, FetchLimit, rnd.vinted)
            listings == {resp.products[i] : i \in 1..Len(resp.products)}
        IN  /\ (platform = None \/ platform = All) =>
                   FetchedFor(resp) = <<fromLeboncoin, fromVinted>>
            /\ platform = Leboncoin => FetchedFor(resp) = <<fromLeboncoin>>
            /\ platform = Vinted => FetchedFor(resp) = <<fromVinted>>
            /\ platform \in {Leboncoin, Vinted} =>
                   \A p \in listings : p.platform = platform
            /\ platform \notin {None, All, Leboncoin, Vinted} =>
                   FetchedFor(resp) = <<>> /\ resp.products = <<>>
            /\ resp.op = "refresh" =>
                   Len(resp.products) = SumLen(FetchedFor(resp))

\* a refresh for the platform vinted returned listings while leboncoin
\* had listings to offer for the same draws
C13_Witness ==
    /\ resp.op = "refresh"
    /\ resp.seed \in Seeds
    /\ resp.req.platform = Vinted
    /\ resp.products # <<>>
    /\ scrape_leboncoin(resp.req.query, FetchLimit, Rand(resp.seed).leboncoin) # <<>>

\* the first n elements of s, all of s when it has fewer
FirstN(s, n) == SubSeq(s, 1, Min(n, Len(s)))

\* the listing satisfies every predicate that the search body makes active
SatisfiesSearch(p, req) ==
    /\ (Truthy(req.location) /\ req.location # All) => p.location = req.location
    /\ p.discount >= req.min_discount

\* the listing satisfies every predicate that the query string makes active
SatisfiesList(p, c) ==
    /\ Truthy(c.query) => Contains(Lower(p.title), Lower(c.query))
    /\ (Truthy(c.location) /\ c.location # All) => p.location = c.location
    /\ (Truthy(c.category) /\ c.category # All) => p.category = c.category
    /\ (Truthy(c.platform) /\ c.platform # All) => p.platform = c.platform
    /\ c.min_discount # 0 => p.discount >= c.min_discount

\* the list-listings half of C14: a listing response is the first
\* max_results of the stored listings that satisfy the active predicates
ListTruncatedLast ==
    (ListsProducts /\ reply'.status = 200) =>
        reply'.body =
            FirstN(SelectSeq(load_products.products,
                             LAMBDA p : SatisfiesList(p, reply'.params)),
                   reply'.params.max_results)

\* the search half of C14: a cache miss returns the first max_results of
\* the aggregated listings that satisfy the active predicates
MissTruncatedLast ==
    (SearchResponds /\ ~resp'.cached) =>
        resp'.products =
            FirstN(SelectSeq(Scraped[resp'.req.query, resp'.req.platform, resp'.seed],
                             LAMBDA p : SatisfiesSearch(p, resp'.req)),
                   resp'.req.max_results)

\* C14: in list-listings and in a search cache miss the result is exactly
\* the first max_results elements, in input order, of the sequence of all
\* listings that satisfy every active predicate.
C14_TruncationLast == [][ListTruncatedLast /\ MissTruncatedLast]_vars

\* the list-listings half alone
C14_ListTruncationLast == [][ListTruncatedLast]_vars

\* the step admits a refresh whose key is k
RefreshBegins(k) ==
    /\ nreq' = nreq + 1
    /\ nreq' \in DOMAIN tasks'
    /\ tasks'[nreq'].op = "refresh"
    /\ get_cache_key(tasks'[nreq'].req.query, None, tasks'[nreq'].req.platform) = k

\* the step ends a search that missed the cache for the key k
MissEnds(k) == SearchResponds /\ ~resp'.cached /\ KeyOf(resp') = k

\* C15: cache entries are never evicted: an entry, expired or not, leaves
\* the cache only when a refresh for its key begins and changes only when
\* a search miss for its key ends; the number of entries decreases in no
\* other step, and health reports every entry, expired ones included.
C15_NeverEvicted ==
    [][/\ \A k \in DOMAIN cache :
              /\ k \notin DOMAIN cache' => RefreshBegins(k)
              /\ (k \in DOMAIN cache' /\ cache'[k] # cache[k]) => MissEnds(k)
       /\ Cardinality(DOMAIN cache') < Cardinality(DOMAIN cache) =>
              \E k \in DOMAIN cache : RefreshBegins(k)
       /\ reply'.endpoint = "health" =>
              reply'.body.cache_size = Cardinality(DOMAIN cache)]_vars

\* health counted two entries, one of them expired, after a search miss
\* for another key ended
C15_Witness ==
    /\ reply.endpoint = "health"
    /\ reply.body.cache_size = 2
    /\ \E k \in DOMAIN cache : ~Fresh(cache[k], now)
    /\ resp.op = "search" /\ ~resp.cached
    /\ KeyOf(resp) \in DOMAIN cache /\ Fresh(cache[KeyOf(resp)], now)

\* every listing of the sequence has a discount of at least the floor
AtOrAboveFloor(products) ==
    \A i \in 1..Len(products) : products[i].discount >= 40

\* the listings that the products file holds, whatever else it holds
Stored == SelectSeq(file, LAMBDA token : token.tok = "{}")

\* C16: a fetcher emits no listing with a discount below 40 and no more
\* listings than its limit, so every listing in the cache, in a search or
\* refresh response, handed to a save or written to the products file has a
\* discount of at least 40, whatever min_discount the requests carried.
C16_DiscountFloor ==
    /\ resp.seed \in Seeds =>
           \A i \in 1..Len(FetchedFor(resp)) :
               /\ Len(FetchedFor(resp)[i]) <= FetchLimit
               /\ AtOrAboveFloor(FetchedFor(resp)[i])
    /\ \A k \in DOMAIN cache : AtOrAboveFloor(cache[k].data)
    /\ AtOrAboveFloor(resp.products)
    /\ \A id \in DOMAIN tasks : AtOrAboveFloor(tasks[id].products)
    /\ \A id \in DOMAIN savers : AtOrAboveFloor(savers[id].products)
    /\ \A i \in 1..Len(Stored) : Stored[i].product.discount >= 40

\* a search with min_discount 0 missed the cache, a fetcher skipped a draw
\* below the floor, and the listings returned are cached and written
C16_Witness ==
    /\ resp.op = "search" /\ ~resp.cached
    /\ resp.req.min_discount = 0
    /\ resp.products # <<>>
    /\ resp.seed \in Seeds
    /\ \E i \in 1..Len(FetchedFor(resp)) : Len(FetchedFor(resp)[i]) < FetchLimit
    /\ KeyOf(resp) \in DOMAIN cache
    /\ Stored # <<>>

\* C17: a search that is served from the cache changes nothing: the cache
\* (entries and timestamps) and the products file are as before, no
\* aggregation is started and no save is scheduled.
C17_HitChangesNothing ==
    [][(SearchResponds /\ resp'.cached) =>
           /\ cache' = cache
           /\ fileExists' = fileExists /\ file' = file
           /\ tasks' = tasks
           /\ savers' = savers]_vars

\* a search was served from the cache while the save that the miss before
\* it scheduled was still pending
C17_Witness ==
    /\ resp.op = "search" /\ resp.cached
    /\ resp.products # <<>>
    /\ KeyOf(resp) \in DOMAIN cache
    /\ \E id \in DOMAIN savers : savers[id].pc = "pending"

\* the step admits a refresh
RefreshAdmitted ==
    /\ nreq' = nreq + 1
    /\ nreq' \in DOMAIN tasks'
    /\ tasks'[nreq'].op = "refresh"

\* the step is a later step of a refresh: the end of its aggregation or the
\* return from its direct save
RefreshProceeds ==
    \E id \in DOMAIN tasks :
        /\ tasks[id].op = "refresh"
        /\ id \notin DOMAIN tasks' \/ tasks'[id] # tasks[id]

\* the key that refresh derives from its parameters
RefreshKey(req) == get_cache_key(req.query, None, req.platform)

\* C18: refresh never adds or modifies a cache entry: it removes at most
\* the entry whose key is derived from (query, absent location, platform),
\* leaves every other entry as it is and does not cache the aggregation it
\* returns, so the first search for that key after a refresh, no search
\* being concurrent, is answered with cached = false.
C18_RefreshOnlyRemoves ==
    [][/\ RefreshAdmitted =>
              /\ \A k \in DOMAIN cache' : k \in DOMAIN cache /\ cache'[k] = cache[k]
              /\ DOMAIN cache \ DOMAIN cache' \subseteq {RefreshKey(tasks'[nreq'].req)}
       /\ RefreshProceeds => cache' = cache
       /\ (SearchResponds /\ resp.op = "refresh" /\ KeyOf(resp') = RefreshKey(resp.req))
              => ~resp'.cached]_vars

\* a refresh has returned listings after removing the entry of its key: the
\* entry of another key is still cached, and none is cached for its own
C18_Witness ==
    /\ resp.op = "refresh"
    /\ resp.hadEntry
    /\ resp.products # <<>>
    /\ RefreshKey(resp.req) \notin DOMAIN cache
    /\ cache # <<>>

\* C19: once a refresh has returned, the cache holds no entry for its key
\* whose aggregation started before the refresh deleted the entry: a search
\* that missed the cache before the refresh was admitted, and ends after the
\* refresh has returned, does not install its result.
C19_NoOlderInstall ==
    [][(/\ SearchResponds /\ ~resp'.cached
        /\ resp.op = "refresh"
        /\ resp.id > resp'.id
        /\ RefreshKey(resp.req) = KeyOf(resp'))
       => ~(/\ KeyOf(resp') \in DOMAIN cache'
            /\ cache'[KeyOf(resp')].data = resp'.products)]_vars

====
